---------------------------- MODULE Spec2Model ----------------------------
(***************************************************************************)
(* A model of redis-priority-queue: RedisPriorityQueue (push, pop, peek,   *)
(* length, get_all over a Redis sorted set) and the Producer / Consumer    *)
(* workers built on BaseWorker, in their threaded (src/redis_pq.py) and    *)
(* cooperative (src/async/redis_pq.py) variants.                           *)
(***************************************************************************)
EXTENDS Integers, Sequences, FiniteSets, TLC

(***************************************************************************)
(* Bounds of the model.                                                    *)
(***************************************************************************)
MaxPush == 2
MaxClock == 1

MaxPriority == 1
\* The number of tasks pushed before a get_all().
MaxTasks == 3

(***************************************************************************)
(* Program constants.                                                      *)
(***************************************************************************)
DefaultPriority == 0

(***************************************************************************)
(* Python values.  A value is a record whose field t is the Python type    *)
(* and whose content is in the field of that type: n (an int, or a bool as *)
(* 0/1), s (the text of a str: a sequence of one-character strings), xs    *)
(* (the elements of a list, tuple or set) or kv (the <<key, value>> pairs  *)
(* of a dict, in insertion order).  The other fields are empty.            *)
(***************************************************************************)
PyInt(n) == [n |-> n, t |-> "int", s |-> <<>>, xs |-> <<>>, kv |-> <<>>]
PyStr(s) == [n |-> 0, t |-> "str", s |-> s, xs |-> <<>>, kv |-> <<>>]
PyList(xs) == [n |-> 0, t |-> "list", s |-> <<>>, xs |-> xs, kv |-> <<>>]
PyTuple(xs) == [n |-> 0, t |-> "tuple", s |-> <<>>, xs |-> xs, kv |-> <<>>]
PyDict(kvs) == [n |-> 0, t |-> "dict", s |-> <<>>, xs |-> <<>>, kv |-> kvs]
PySet(xs) == [n |-> 0, t |-> "set", s |-> <<>>, xs |-> xs, kv |-> <<>>]
PyBool(b) == [n |-> IF b THEN 1 ELSE 0, t |-> "bool", s |-> <<>>, xs |-> <<>>, kv |-> <<>>]
PyNone == [n |-> 0, t |-> "none", s |-> <<>>, xs |-> <<>>, kv |-> <<>>]

\* Python truth value of a result (`if item:`, `if success:`, `if not items`).
Truthy(x) ==
    CASE x.t = "none" -> FALSE
      [] x.t \in {"bool", "int"} -> x.n # 0
      [] x.t = "str" -> Len(x.s) > 0
      [] x.t = "dict" -> Len(x.kv) > 0
      [] OTHER -> Len(x.xs) > 0

Q == "\""
KeyData == <<"d", "a", "t", "a">>
KeyTimestamp == <<"t", "i", "m", "e", "s", "t", "a", "m", "p">>

Digits == <<"0", "1", "2", "3", "4", "5", "6", "7", "8", "9">>
IsDigit(c) == \E i \in 1..10 : Digits[i] = c
DigitValue(c) == (CHOOSE i \in 1..10 : Digits[i] = c) - 1

RECURSIVE IntText(_)
\* The decimal text of a non-negative integer.
IntText(n) == IF n < 10 THEN <<Digits[n + 1]>>
              ELSE IntText(n \div 10) \o <<Digits[(n % 10) + 1]>>

\* datetime.utcnow().isoformat(): the text of the wall clock's reading.
IsoFormat(c) == IntText(c)

(***************************************************************************)
(* json.dumps with its default separators.  A tuple is written as a list;  *)
(* an int key of a dict is written as a string; a set (like any object     *)
(* that is not JSON serializable) raises TypeError.                        *)
(***************************************************************************)
RECURSIVE Serializable(_)
Serializable(x) ==
    CASE x.t \in {"int", "str", "bool", "none"} -> TRUE
      [] x.t \in {"list", "tuple"} -> \A i \in 1..Len(x.xs) : Serializable(x.xs[i])
      [] x.t = "dict" -> \A i \in 1..Len(x.kv) :
                            /\ x.kv[i][1].t \in {"int", "str"}
                            /\ Serializable(x.kv[i][2])
      [] OTHER -> FALSE

KeyText(k) == IF k.t = "int" THEN IntText(k.n) ELSE k.s

RECURSIVE Dumps(_)
RECURSIVE DumpsElems(_, _)
RECURSIVE DumpsPairs(_, _)
Dumps(x) ==
    CASE x.t = "int" -> IntText(x.n)
      [] x.t = "str" -> <<Q>> \o x.s \o <<Q>>
      [] x.t = "bool" -> IF x.n = 1 THEN <<"t", "r", "u", "e">>
                                ELSE <<"f", "a", "l", "s", "e">>
      [] x.t = "none" -> <<"n", "u", "l", "l">>
      [] x.t \in {"list", "tuple"} -> <<"[">> \o DumpsElems(x.xs, 1) \o <<"]">>
      [] x.t = "dict" -> <<"{">> \o DumpsPairs(x.kv, 1) \o <<"}">>
DumpsElems(xs, i) ==
    IF i > Len(xs) THEN <<>>
    ELSE (IF i > 1 THEN <<",", " ">> ELSE <<>>) \o Dumps(xs[i]) \o DumpsElems(xs, i + 1)
DumpsPairs(kvs, i) ==
    IF i > Len(kvs) THEN <<>>
    ELSE (IF i > 1 THEN <<",", " ">> ELSE <<>>)
         \o <<Q>> \o KeyText(kvs[i][1]) \o <<Q, ":", " ">> \o Dumps(kvs[i][2])
         \o DumpsPairs(kvs, i + 1)

(***************************************************************************)
(* json.loads: a recursive-descent parser of the texts json.dumps writes.  *)
(* Each Parse operator returns [n |-> index after the value, v |-> value]. *)
(***************************************************************************)
RECURSIVE ScanString(_, _)
\* The index of the closing quote of the string whose content starts at i.
ScanString(s, i) == IF s[i] = Q THEN i ELSE ScanString(s, i + 1)

RECURSIVE ScanInt(_, _, _)
ScanInt(s, i, acc) ==
    IF i <= Len(s) /\ IsDigit(s[i])
    THEN ScanInt(s, i + 1, acc * 10 + DigitValue(s[i]))
    ELSE [n |-> i, v |-> PyInt(acc)]

\* dict[key] = value on a sequence of pairs: a repeated key keeps its place.
DictSet(kvs, k, x) ==
    IF \E i \in 1..Len(kvs) : kvs[i][1] = k
    THEN [i \in 1..Len(kvs) |-> IF kvs[i][1] = k THEN <<k, x>> ELSE kvs[i]]
    ELSE Append(kvs, <<k, x>>)

RECURSIVE ParseValue(_, _)
RECURSIVE ParseElems(_, _, _)
RECURSIVE ParsePairs(_, _, _)
ParseValue(s, i) ==
    CASE s[i] = Q ->
           LET j == ScanString(s, i + 1)
           IN  [n |-> j + 1, v |-> PyStr(SubSeq(s, i + 1, j - 1))]
      [] s[i] = "[" ->
           IF s[i + 1] = "]" THEN [n |-> i + 2, v |-> PyList(<<>>)]
           ELSE ParseElems(s, i + 1, <<>>)
      [] s[i] = "{" ->
           IF s[i + 1] = "}" THEN [n |-> i + 2, v |-> PyDict(<<>>)]
           ELSE ParsePairs(s, i + 1, <<>>)
      [] s[i] = "t" -> [n |-> i + 4, v |-> PyBool(TRUE)]
      [] s[i] = "f" -> [n |-> i + 5, v |-> PyBool(FALSE)]
      [] s[i] = "n" -> [n |-> i + 4, v |-> PyNone]
      [] OTHER -> ScanInt(s, i, 0)
ParseElems(s, i, acc) ==
    LET e == ParseValue(s, i)
        xs == Append(acc, e.v)
    IN  IF s[e.n] = "," THEN ParseElems(s, e.n + 2, xs)
        ELSE [n |-> e.n + 1, v |-> PyList(xs)]
ParsePairs(s, i, acc) ==
    LET k == ParseValue(s, i)
        x == ParseValue(s, k.n + 2)
        kvs == DictSet(acc, k.v, x.v)
    IN  IF s[x.n] = "," THEN ParsePairs(s, x.n + 2, kvs)
        ELSE [n |-> x.n + 1, v |-> PyDict(kvs)]

Loads(s) == ParseValue(s, 1).v

\* item['data'] of a dict.
DictGet(d, k) == LET i == CHOOSE i \in 1..Len(d.kv) : d.kv[i][1] = PyStr(k)
                 IN  d.kv[i][2]

(***************************************************************************)
(* The Redis sorted set behind a queue name: a function from members (the  *)
(* serialized items) to scores.  Members are ordered by score, and members *)
(* of equal score by their bytes.                                          *)
(***************************************************************************)
Ord(c) ==
    CASE c = " " -> 32 [] c = Q -> 34 [] c = "," -> 44 [] c = ":" -> 58
      [] c = "[" -> 91 [] c = "]" -> 93 [] c = "_" -> 95 [] c = "k" -> 107
      [] c = "{" -> 123 [] c = "}" -> 125
      [] c = "a" -> 97 [] c = "b" -> 98 [] c = "d" -> 100 [] c = "e" -> 101
      [] c = "f" -> 102 [] c = "i" -> 105 [] c = "l" -> 108 [] c = "m" -> 109
      [] c = "n" -> 110 [] c = "p" -> 112 [] c = "r" -> 114 [] c = "s" -> 115
      [] c = "t" -> 116 [] c = "u" -> 117
      [] OTHER -> 48 + DigitValue(c)

\* memcmp order of two members.
LexLess(a, b) ==
    \/ /\ Len(a) < Len(b)
       /\ \A i \in 1..Len(a) : a[i] = b[i]
    \/ \E i \in 1..(IF Len(a) < Len(b) THEN Len(a) ELSE Len(b)) :
          /\ \A j \in 1..(i - 1) : a[j] = b[j]
          /\ Ord(a[i]) < Ord(b[i])

\* Before, had the range been read from the highest score down.
BeforeDescending(zs, m1, m2) ==
    \/ zs[m1] > zs[m2]
    \/ zs[m1] = zs[m2] /\ LexLess(m2, m1)

\* m1 comes before m2 in the sorted set zs.
Before(zs, m1, m2) ==
    \/ zs[m1] < zs[m2]
    \/ zs[m1] = zs[m2] /\ LexLess(m1, m2)

RECURSIVE Ranked(_, _)
\* The members of zs in rank order, those of the set ms only.
Ranked(zs, ms) ==
    IF ms = {} THEN <<>>
    ELSE LET first == CHOOSE m \in ms : \A o \in ms \ {m} : Before(zs, m, o)
         IN  <<first>> \o Ranked(zs, ms \ {first})

EmptyZSet == [m \in {} |-> 0]

\* ZADD key {member: score}: the new sorted set.
ZAdd(zs, member, score) ==
    [m \in DOMAIN zs \cup {member} |-> IF m = member THEN score ELSE zs[m]]

\* The reply of ZADD: the number of members that were new.
ZAddReply(zs, member) == IF member \in DOMAIN zs THEN 0 ELSE 1

\* ZRANGE key start stop, stop = -1 being the last rank.
ZRange(zs, start, stop) ==
    LET all == Ranked(zs, DOMAIN zs)
        last == IF stop < 0 THEN Len(all) + 1 + stop
                ELSE IF stop + 1 < Len(all) THEN stop + 1 ELSE Len(all)
    IN  SubSeq(all, start + 1, last)

\* ZREM key member.
ZRem(zs, member) == [m \in DOMAIN zs \ {member} |-> zs[m]]

\* ZCARD key.
ZCard(zs) == Cardinality(DOMAIN zs)

(***************************************************************************)
(* The outcomes of one call of the Redis client: it returns ("ok"), or it  *)
(* raises a connection error before the server has applied the command     *)
(* ("lost") or after it has ("late": the reply did not arrive).            *)
(***************************************************************************)
ReadFaults == {"ok", "lost"}
WriteFaults == {"ok", "lost", "late"}
Applied(f) == f \in {"ok", "late"}

(***************************************************************************)
(* State.                                                                  *)
(***************************************************************************)
VARIABLES
    store,      \* the Redis server: queue name -> sorted set
    clock,      \* the wall clock datetime.utcnow() reads
    ret,        \* the last call of the application on a RedisPriorityQueue
    prev,       \* the call before it
    nPush,      \* per queue: push() calls made, by the application or a Producer
    nPop,       \* per queue: pop() calls of the application that returned an item
    hist,       \* what has happened so far: a call of the Redis client failed
                \* (faults), a push returned a falsy result (rejected), a payload
                \* was not serializable, a pop found its queue empty or failed
                \* (popEmpty), the except branch of a run() was taken (caught)
    popped,     \* per queue: the scores of the items the pops have returned
                \* since the last push, in the order of the pops
    peeked,     \* per queue: result of the last peek since the queue last changed
    enq,        \* member -> how many times a push has added it to a queue
    active,     \* the workers the application has constructed
    running,    \* worker -> self.running
    thread,     \* worker -> self.thread: "none", "created" or "started"
    pc,         \* worker -> where its run() is
    items,      \* worker -> what the zrange of its pop() returned
    item,       \* worker -> what its last pop() returned
    gen,        \* worker -> the <<data, priority>> its item_generator returned
    main,       \* worker -> where the application is in its start() and stop()
    hs,         \* worker -> where its signal handler is
    sigAt,      \* worker -> where the application was when the signal came
    conn,       \* worker -> the connection of its queue: "none", "open", "closed"
    handler,    \* per process: the worker whose handle_signal is installed for
                \* SIGINT and SIGTERM, "none" for Python's default handlers
    delivered,  \* member -> how many times an item_processor was called with it
    obs         \* per worker: the items its pops returned that were not yet
                \* passed to the item_processor (pending), the calls of the
                \* item_processor that have not returned (busy), and whether
                \* none, one or more calls of pop() or push() began after a
                \* stop request (after)

apiVars == <<ret, prev, nPop, hist, popped, peeked>>
loopVars == <<pc, items, item, gen>>
lifeVars == <<running, thread, main, hs, sigAt, conn, handler>>
workerVars == <<active, loopVars, lifeVars, delivered, obs>>
vars == <<store, clock, apiVars, nPush, enq, workerVars>>

QueueNames == {"task_queue"}
Priorities == DefaultPriority..MaxPriority

TextA == <<"a">>
\* The payloads the application pushes: JSON values, a tuple (which JSON
\* writes as a list) and a set (which json.dumps rejects).
Payloads ==
    { PyStr(TextA),
      PyList(<<PyInt(1)>>),
      PyTuple(<<PyInt(1)>>),
      PySet(<<PyInt(1)>>) }

\* A call: its method, queue and payload, what it returned, whether it raised,
\* whether a call of the Redis client failed in it, and the cardinality of the
\* queue when it began.
Call(op, q, data, result, raised, fault, card) ==
    [op |-> op, q |-> q, data |-> data, result |-> result, raised |-> raised,
     fault |-> fault, card |-> card]
NoCall == Call("none", "", PyNone, PyNone, FALSE, FALSE, 0)
\* The workers: Consumers and a Producer of src/redis_pq.py, which run on
\* threads, and a Consumer and a Producer of src/async/redis_pq.py, which run
\* as coroutines.
Consumers == {"c1", "c2", "ac1"}
Producers == {"p1", "ap1"}
Workers == Consumers \cup Producers
Threaded == {"c1", "c2", "p1"}
Cooperative == {"ac1", "ap1"}
\* The queue name the workers are constructed with.
TaskQueue == "task_queue"
\* The process a worker is constructed in: c2 in the process of
\* src/consumer_2.py, the others in one application.
Processes == {"application", "consumer_2"}
Process(w) == IF w = "c2" THEN "consumer_2" ELSE "application"
\* The RedisPriorityQueue object a worker is constructed with (self.queue):
\* the two workers of src/async/redis_pq.py are given one object, every
\* other worker an object of its own.  Sharing(w) are the workers that hold
\* the object w holds.
Queue(w) == IF w \in {"ac1", "ap1"} THEN "shared" ELSE w
Sharing(w) == {v \in Workers : Queue(v) = Queue(w)}

\* A counter of members, one more for m.
Count(bag, m) ==
    [x \in DOMAIN bag \cup {m} |->
        IF x = m THEN (IF m \in DOMAIN bag THEN bag[m] + 1 ELSE 1) ELSE bag[x]]
CountOf(bag, m) == IF m \in DOMAIN bag THEN bag[m] ELSE 0

NoPeek == [n |-> 0, t |-> "nopeek", s |-> <<>>, xs |-> <<>>, kv |-> <<>>]

\* item = {'data': data, 'timestamp': datetime.utcnow().isoformat()}
MakeItem(data, now) ==
    PyDict(<< <<PyStr(KeyData), data>>, <<PyStr(KeyTimestamp), PyStr(IsoFormat(now))>> >>)

\* What push() returns: ZADD's reply, or False from its except branch (taken
\* on a TypeError of json.dumps and on a connection error of zadd).
PushResult(zs, data, now, f) ==
    IF Serializable(data) /\ f = "ok"
    THEN PyInt(ZAddReply(zs, Dumps(MakeItem(data, now))))
    ELSE PyBool(FALSE)

\* The sorted set push() leaves behind.
PushStore(zs, data, priority, now, f) ==
    IF Serializable(data) /\ Applied(f)
    THEN ZAdd(zs, Dumps(MakeItem(data, now)), priority)
    ELSE zs

\* push() adds a member to the sorted set.
PushAdds(zs, data, now, f) ==
    /\ Serializable(data)
    /\ Applied(f)
    /\ Dumps(MakeItem(data, now)) \notin DOMAIN zs

\* What pop() returns, f1 being the outcome of its zrange and f2 of its zrem.
PopResult(zs, f1, f2) ==
    LET got == ZRange(zs, 0, 0)
    IN  IF f1 # "ok" \/ got = <<>> \/ f2 # "ok" THEN PyNone
        ELSE Loads(got[1])

\* PopStore, had pop() left out its zrem.
PopStoreNoRemove(zs, f1, f2) == zs

\* The sorted set pop() leaves behind.
PopStore(zs, f1, f2) ==
    LET got == ZRange(zs, 0, 0)
    IN  IF f1 = "ok" /\ got # <<>> /\ Applied(f2) THEN ZRem(zs, got[1])
        ELSE zs

\* What peek() returns.
PeekResult(zs, f) ==
    LET got == ZRange(zs, 0, 0)
    IN  IF f = "ok" /\ got # <<>> THEN Loads(got[1]) ELSE PyNone

\* GetAllResult, had get_all() read the sorted set from its highest score down.
GetAllResultDescending(zs, f) ==
    LET got == ZRange(zs, 0, -1)
    IN  IF f = "ok" THEN PyList([i \in 1..Len(got) |-> Loads(got[Len(got) + 1 - i])])
        ELSE PyList(<<>>)

\* What get_all() returns.
GetAllResult(zs, f) ==
    LET got == ZRange(zs, 0, -1)
    IN  IF f = "ok" THEN PyList([i \in 1..Len(got) |-> Loads(got[i])])
        ELSE PyList(<<>>)

\* The state once the application has constructed its queue and the workers ws.
Constructed(ws) ==
    /\ active = ws
    /\ store = [q \in QueueNames |-> EmptyZSet]
    /\ clock = 0
    /\ ret = NoCall
    /\ prev = NoCall
    /\ nPush = [q \in QueueNames |-> 0]
    /\ nPop = [q \in QueueNames |-> 0]
    /\ hist = [faults |-> FALSE, rejected |-> FALSE, unserializable |-> FALSE,
               popEmpty |-> FALSE, caught |-> FALSE]
    /\ popped = [q \in QueueNames |-> <<>>]
    /\ peeked = [q \in QueueNames |-> NoPeek]
    /\ enq = EmptyZSet
    /\ delivered = EmptyZSet
    /\ obs = [w \in Workers |-> [pending |-> <<>>, busy |-> 0, after |-> 0]]
    /\ running = [w \in Workers |-> FALSE]
    /\ thread = [w \in Workers |-> "none"]
    /\ pc = [w \in Workers |-> "idle"]
    /\ items = [w \in Workers |-> <<>>]
    /\ item = [w \in Workers |-> PyNone]
    /\ gen = [w \in Workers |-> <<PyNone, 0>>]
    /\ main = [w \in Workers |-> "new"]
    /\ hs = [w \in Workers |-> "none"]
    /\ sigAt = [w \in Workers |-> "none"]
    /\ conn = [w \in Workers |-> "none"]
    /\ handler \in [Processes -> Workers \cup {"none"}]
    /\ \A p \in Processes :
          LET made == {w \in ws \cap Threaded : Process(w) = p}
          IN  IF made = {} THEN handler[p] = "none" ELSE handler[p] \in made

\* An application that uses the queue's methods itself and has no worker.
Init == Constructed({})

\* The wall clock moves on.  Two calls of utcnow() with no Tick in between read
\* the same microsecond (callers in two processes, a coarse or adjusted clock).
Tick ==
    /\ clock < MaxClock
    /\ clock' = clock + 1
    /\ UNCHANGED <<store, apiVars, nPush, enq, workerVars>>

\* queue.push(q, data, priority) called by the application, which makes at
\* most limit calls of it.
PushUpTo(limit, q, data, priority, f) ==
    LET result == PushResult(store[q], data, clock, f)
    IN  /\ nPush[q] < limit
        /\ Serializable(data) \/ f = "ok"
        /\ store' = [store EXCEPT ![q] = PushStore(@, data, priority, clock, f)]
        /\ ret' = Call("push", q, data, result, FALSE, f # "ok", ZCard(store[q]))
        /\ nPush' = [nPush EXCEPT ![q] = @ + 1]
        /\ prev' = ret
        /\ hist' = [hist EXCEPT !.faults = @ \/ f # "ok",
                                !.rejected = @ \/ ~Truthy(result),
                                !.unserializable = @ \/ ~Serializable(data)]
        /\ popped' = [popped EXCEPT ![q] = <<>>]
        /\ peeked' = [peeked EXCEPT ![q] = IF store'[q] = store[q] THEN @ ELSE NoPeek]
        /\ enq' = IF PushAdds(store[q], data, clock, f)
                   THEN Count(enq, Dumps(MakeItem(data, clock))) ELSE enq
        /\ UNCHANGED <<nPop, clock, workerVars>>

Push(q, data, priority, f) == PushUpTo(MaxPush, q, data, priority, f)

\* queue.pop(q) called by the application.
Pop(q, f1, f2) ==
    LET got == ZRange(store[q], 0, 0)
        result == PopResult(store[q], f1, f2)
        reached == f1 = "ok" /\ got # <<>>
    IN  /\ reached \/ f2 = "ok"
        /\ store' = [store EXCEPT ![q] = PopStore(@, f1, f2)]
        /\ ret' = Call("pop", q, PyNone, result, FALSE, f1 # "ok" \/ f2 # "ok",
                        ZCard(store[q]))
        /\ prev' = ret
        /\ nPop' = [nPop EXCEPT ![q] = IF Truthy(result) THEN @ + 1 ELSE @]
        /\ hist' = [hist EXCEPT !.faults = @ \/ f1 # "ok" \/ f2 # "ok",
                                !.popEmpty = @ \/ ~reached]
        /\ popped' = [popped EXCEPT ![q] = IF Truthy(result)
                                            THEN Append(@, store[q][got[1]]) ELSE @]
        /\ peeked' = [peeked EXCEPT ![q] = IF store'[q] = store[q] THEN @ ELSE NoPeek]
        /\ UNCHANGED <<nPush, clock, enq, workerVars>>

\* Peek, had peek() removed the item it read as pop() does.
PeekRemoving(q, f) == Pop(q, f, "ok")

\* queue.peek(q) called by the application.
Peek(q, f) ==
    LET result == PeekResult(store[q], f)
    IN  /\ ret' = Call("peek", q, PyNone, result, FALSE, f # "ok", ZCard(store[q]))
        /\ prev' = ret
        /\ peeked' = [peeked EXCEPT ![q] = IF f = "ok" THEN result ELSE @]
        /\ hist' = [hist EXCEPT !.faults = @ \/ f # "ok"]
        /\ UNCHANGED <<store, clock, nPush, nPop, popped, enq, workerVars>>

\* queue.length(q) called by the application: zcard, with no except branch.
Length(q, f) ==
    /\ ret' = Call("length", q, PyNone,
                    IF f = "ok" THEN PyInt(ZCard(store[q])) ELSE PyNone,
                    f # "ok", f # "ok", ZCard(store[q]))
    /\ prev' = ret
    /\ hist' = [hist EXCEPT !.faults = @ \/ f # "ok"]
    /\ UNCHANGED <<store, clock, nPush, nPop, popped, peeked, enq, workerVars>>

\* queue.get_all(q) called by the application.
GetAll(q, f) ==
    /\ ret' = Call("get_all", q, PyNone, GetAllResult(store[q], f), FALSE,
                    f # "ok", ZCard(store[q]))
    /\ prev' = ret
    /\ hist' = [hist EXCEPT !.faults = @ \/ f # "ok"]
    /\ UNCHANGED <<store, clock, nPush, nPop, popped, peeked, enq, workerVars>>

CallPush == \E q \in QueueNames, data \in Payloads, k \in Priorities, f \in WriteFaults :
               Push(q, data, k, f)
CallPop == \E q \in QueueNames, f1 \in ReadFaults, f2 \in WriteFaults : Pop(q, f1, f2)
CallPeek == \E q \in QueueNames, f \in ReadFaults : Peek(q, f)
CallLength == \E q \in QueueNames, f \in ReadFaults : Length(q, f)
CallGetAll == \E q \in QueueNames, f \in ReadFaults : GetAll(q, f)

\* One application thread calling the queue's methods one after the other.
Next == Tick \/ CallPush \/ CallPop \/ CallPeek \/ CallLength \/ CallGetAll

Spec == Init /\ [][Next]_vars

(***************************************************************************)
(* The workers.  run() is followed statement by statement: pc is "idle"    *)
(* before run() begins, "head" at `while self.running`, "zrange" and       *)
(* "zrem" at the two calls of pop(), "process" at the call of the          *)
(* item_processor and "processing" inside it, "generate" at the call of    *)
(* the item_generator and "zadd" at the call of push(), "sleep" in the     *)
(* sleep that ends an iteration, "backoff" in the sleep of the except      *)
(* branch, and "done" once run() has returned.                             *)
(***************************************************************************)
Outcomes == {"returns", "raises"}
\* The payloads the workers' items carry.
WorkPayloads == {PyStr(TextA), PyList(<<PyInt(1)>>)}
\* What an item_generator returns.
GenOutputs == WorkPayloads \X Priorities
NoOutput == <<PyNone, 0>>

\* stop() was called, or a signal was handled, after start() had begun.
StopRequested(w) ==
    \/ main[w] \in {"stop_join", "stopped"}
    \/ hs[w] # "none" /\ sigAt[w] # "new"

\* The count (none, one, more) of the calls of pop() and push() begun after a
\* stop request, one more call beginning now.
CallsAfter(w, n) == IF StopRequested(w) /\ n < 2 THEN n + 1 ELSE n

\* `while self.running:` is evaluated.
LoopHead(w) ==
    /\ pc[w] = "head"
    /\ pc' = [pc EXCEPT ![w] = IF ~running[w] THEN "done"
                               ELSE IF w \in Consumers THEN "zrange" ELSE "generate"]
    /\ UNCHANGED <<store, clock, apiVars, nPush, enq, active, items, item, gen,
                   lifeVars, delivered, obs>>

\* ConsumerZRange, had pop() raised on an empty queue: the iteration ends in
\* the except branch of run().
ConsumerZRangeRaising(w, f) ==
    LET got == ZRange(store[TaskQueue], 0, 0)
    IN  /\ w \in Consumers
        /\ pc[w] = "zrange"
        /\ IF f = "ok" /\ got # <<>>
           THEN /\ items' = [items EXCEPT ![w] = got]
                /\ pc' = [pc EXCEPT ![w] = "zrem"]
                /\ item' = item
           ELSE /\ items' = [items EXCEPT ![w] = <<>>]
                /\ pc' = [pc EXCEPT ![w] = "backoff"]
                /\ item' = [item EXCEPT ![w] = PyNone]
        /\ hist' = [hist EXCEPT !.faults = @ \/ f # "ok",
                                !.caught = @ \/ ~(f = "ok" /\ got # <<>>)]
        /\ UNCHANGED <<store, clock, ret, prev, nPop, popped, peeked, nPush, enq,
                       active, gen, lifeVars, delivered, obs>>

\* A pop() whose zrange reads nothing, whatever the queue holds.
ConsumerZRangeBlind(w, f) ==
    /\ w \in Consumers
    /\ pc[w] = "zrange"
    /\ items' = [items EXCEPT ![w] = <<>>]
    /\ pc' = [pc EXCEPT ![w] = "sleep"]
    /\ item' = [item EXCEPT ![w] = PyNone]
    /\ hist' = [hist EXCEPT !.faults = @ \/ f # "ok"]
    /\ obs' = [obs EXCEPT ![w].after = CallsAfter(w, @)]
    /\ UNCHANGED <<store, clock, ret, prev, nPop, popped, peeked, nPush, enq,
                   active, gen, lifeVars, delivered>>

\* Consumer.run calls pop(), which calls zrange: on a connection error or an
\* empty queue pop() returns None and the iteration ends in sleep(poll_interval).
ConsumerZRange(w, f) ==
    LET got == ZRange(store[TaskQueue], 0, 0)
    IN  /\ w \in Consumers
        /\ pc[w] = "zrange"
        /\ IF f = "ok" /\ got # <<>>
           THEN /\ items' = [items EXCEPT ![w] = got]
                /\ pc' = [pc EXCEPT ![w] = "zrem"]
                /\ item' = item
           ELSE /\ items' = [items EXCEPT ![w] = <<>>]
                /\ pc' = [pc EXCEPT ![w] = "sleep"]
                /\ item' = [item EXCEPT ![w] = PyNone]
        /\ hist' = [hist EXCEPT !.faults = @ \/ f # "ok"]
        /\ obs' = [obs EXCEPT ![w].after = CallsAfter(w, @)]
        /\ UNCHANGED <<store, clock, ret, prev, nPop, popped, peeked, nPush, enq,
                       active, gen, lifeVars, delivered>>

\* pop() goes on to zrem and returns json.loads(items[0]), or None on a
\* connection error.
ConsumerZRem(w, f) ==
    /\ w \in Consumers
    /\ pc[w] = "zrem"
    /\ store' = [store EXCEPT ![TaskQueue] =
                    IF Applied(f) THEN ZRem(@, items[w][1]) ELSE @]
    /\ peeked' = [peeked EXCEPT ![TaskQueue] =
                    IF store'[TaskQueue] = store[TaskQueue] THEN @ ELSE NoPeek]
    /\ item' = [item EXCEPT ![w] = IF f = "ok" THEN Loads(items[w][1]) ELSE PyNone]
    /\ items' = [items EXCEPT ![w] = <<>>]
    /\ pc' = [pc EXCEPT ![w] = IF f = "ok" THEN "process" ELSE "sleep"]
    /\ hist' = [hist EXCEPT !.faults = @ \/ f # "ok"]
    /\ obs' = [obs EXCEPT ![w].pending =
                  IF f = "ok" THEN Append(@, Loads(items[w][1])) ELSE @]
    /\ UNCHANGED <<clock, ret, prev, nPop, popped, nPush, enq, active, gen,
                   lifeVars, delivered>>

\* A sequence without its first element.
Rest(seq) == IF seq = <<>> THEN <<>> ELSE Tail(seq)

\* ConsumerProcess, had run() started the item_processor without waiting for
\* it to return.
ConsumerProcessDetached(w) ==
    /\ w \in Consumers
    /\ pc[w] = "process"
    /\ delivered' = Count(delivered, Dumps(item[w]))
    /\ obs' = [obs EXCEPT ![w].pending = Rest(@), ![w].busy = @ + 1]
    /\ pc' = [pc EXCEPT ![w] = "head"]
    /\ UNCHANGED <<store, clock, apiVars, nPush, enq, active, items, item, gen,
                   lifeVars>>

\* ConsumerProcess, had run() looked at the flag again before it calls the
\* item_processor, and left the loop with the item unprocessed.
ConsumerProcessUnlessStopped(w) ==
    /\ w \in Consumers
    /\ pc[w] = "process"
    /\ IF running[w]
       THEN /\ delivered' = Count(delivered, Dumps(item[w]))
            /\ obs' = [obs EXCEPT ![w].pending = Rest(@), ![w].busy = @ + 1]
            /\ pc' = [pc EXCEPT ![w] = "processing"]
       ELSE /\ pc' = [pc EXCEPT ![w] = "done"]
            /\ UNCHANGED <<delivered, obs>>
    /\ UNCHANGED <<store, clock, apiVars, nPush, enq, active, items, item, gen,
                   lifeVars>>

\* `if item:` holds and self.item_processor(item) is called.
ConsumerProcess(w) ==
    /\ w \in Consumers
    /\ pc[w] = "process"
    /\ delivered' = Count(delivered, Dumps(item[w]))
    /\ obs' = [obs EXCEPT ![w].pending = Rest(@), ![w].busy = @ + 1]
    /\ pc' = [pc EXCEPT ![w] = "processing"]
    /\ UNCHANGED <<store, clock, apiVars, nPush, enq, active, items, item, gen,
                   lifeVars>>

\* ConsumerProcessed, had run() no except branch: the Exception ends run().
ConsumerProcessedFatal(w, o) ==
    /\ w \in Consumers
    /\ pc[w] = "processing"
    /\ pc' = [pc EXCEPT ![w] = IF o = "returns" THEN "head" ELSE "done"]
    /\ hist' = hist
    /\ UNCHANGED <<store, clock, ret, prev, nPop, popped, peeked, nPush, enq,
                   active, items, item, gen, lifeVars, delivered>>
    /\ obs' = [obs EXCEPT ![w].busy = @ - 1]

\* ConsumerProcessed, had the except branch of run() put the item back.
ConsumerProcessedRequeue(w, o) ==
    /\ w \in Consumers
    /\ pc[w] = "processing"
    /\ pc' = [pc EXCEPT ![w] = IF o = "returns" THEN "head" ELSE "backoff"]
    /\ hist' = [hist EXCEPT !.caught = @ \/ o = "raises"]
    /\ store' = [store EXCEPT ![TaskQueue] =
                    IF o = "raises" THEN ZAdd(@, Dumps(item[w]), DefaultPriority) ELSE @]
    /\ peeked' = [peeked EXCEPT ![TaskQueue] = NoPeek]
    /\ UNCHANGED <<clock, ret, prev, nPop, popped, nPush, enq,
                   active, items, item, gen, lifeVars, delivered>>
    /\ obs' = [obs EXCEPT ![w].busy = @ - 1]

\* The item_processor returns, or raises an Exception, which the except
\* branch of run() catches.
ConsumerProcessed(w, o) ==
    /\ w \in Consumers
    /\ pc[w] = "processing"
    /\ pc' = [pc EXCEPT ![w] = IF o = "returns" THEN "head" ELSE "backoff"]
    /\ hist' = [hist EXCEPT !.caught = @ \/ o = "raises"]
    /\ UNCHANGED <<store, clock, ret, prev, nPop, popped, peeked, nPush, enq,
                   active, items, item, gen, lifeVars, delivered>>
    /\ obs' = [obs EXCEPT ![w].busy = @ - 1]

\* Producer.run calls self.item_generator(), which returns out or raises.
ProducerGenerate(w, o, out) ==
    /\ w \in Producers
    /\ pc[w] = "generate"
    /\ IF o = "returns"
       THEN /\ nPush[TaskQueue] < MaxPush
            /\ gen' = [gen EXCEPT ![w] = out]
            /\ pc' = [pc EXCEPT ![w] = "zadd"]
       ELSE /\ out = NoOutput
            /\ gen' = gen
            /\ pc' = [pc EXCEPT ![w] = "backoff"]
    /\ hist' = [hist EXCEPT !.caught = @ \/ o = "raises"]
    /\ UNCHANGED <<store, clock, ret, prev, nPop, popped, peeked, nPush, enq,
                   active, items, item, lifeVars, delivered, obs>>

\* Producer.run calls push(), reports its result and sleeps for the interval.
ProducerPush(w, f) ==
    LET data == gen[w][1]
        priority == gen[w][2]
    IN  /\ w \in Producers
        /\ pc[w] = "zadd"
        /\ Serializable(data) \/ f = "ok"
        /\ store' = [store EXCEPT ![TaskQueue] = PushStore(@, data, priority, clock, f)]
        /\ peeked' = [peeked EXCEPT ![TaskQueue] =
                        IF store'[TaskQueue] = store[TaskQueue] THEN @ ELSE NoPeek]
        /\ nPush' = [nPush EXCEPT ![TaskQueue] = @ + 1]
        /\ enq' = IF PushAdds(store[TaskQueue], data, clock, f)
                   THEN Count(enq, Dumps(MakeItem(data, clock))) ELSE enq
        /\ pc' = [pc EXCEPT ![w] = "sleep"]
        /\ hist' = [hist EXCEPT !.faults = @ \/ f # "ok"]
        /\ obs' = [obs EXCEPT ![w].after = CallsAfter(w, @)]
        /\ UNCHANGED <<clock, ret, prev, nPop, popped, active, items, item, gen,
                       lifeVars, delivered>>

\* time.sleep / asyncio.sleep returns: the iteration is over.
WorkerWake(w) ==
    /\ pc[w] \in {"sleep", "backoff"}
    /\ pc' = [pc EXCEPT ![w] = "head"]
    /\ UNCHANGED <<store, clock, apiVars, nPush, enq, active, items, item, gen,
                   lifeVars, delivered, obs>>

(***************************************************************************)
(* BaseWorker of src/redis_pq.py.  main is "new" once the worker is        *)
(* constructed (which installs its signal handler), "start_flag" and       *)
(* "start_thread" inside start(), "started" once start() has returned,     *)
(* "stop_join" inside stop(), "stopped" once stop() has returned, and      *)
(* "start_failed" when start() was left by an exception.  The signal       *)
(* handler runs on the application's thread, between two of its            *)
(* statements; the model follows the first signal of a worker.             *)
(***************************************************************************)
\* The application's main thread is inside start() or stop() of another
\* worker of the process, or inside a signal handler that joins its thread.
MainBusy(w) ==
    \E v \in active \ {w} :
        /\ Process(v) = Process(w)
        /\ \/ main[v] \in {"start_flag", "start_thread", "stop_join"}
           \/ hs[v] = "joining"

\* start(): self.running = True
SyncStartFlag(w) ==
    /\ w \in Threaded
    /\ main[w] = "new"
    /\ ~MainBusy(w)
    /\ running' = [running EXCEPT ![w] = TRUE]
    /\ main' = [main EXCEPT ![w] = "start_flag"]
    /\ UNCHANGED <<store, clock, apiVars, nPush, enq, active, handler,
                   loopVars, thread, hs, sigAt, conn, delivered, obs>>

\* start(): self.thread = threading.Thread(target=self.run)
SyncStartThread(w) ==
    /\ w \in Threaded
    /\ main[w] = "start_flag"
    /\ ~MainBusy(w)
    /\ thread' = [thread EXCEPT ![w] = "created"]
    /\ main' = [main EXCEPT ![w] = "start_thread"]
    /\ UNCHANGED <<store, clock, apiVars, nPush, enq, active, handler,
                   loopVars, running, hs, sigAt, conn, delivered, obs>>

\* start(): self.thread.start(); run() begins on the new thread.
SyncStartRun(w) ==
    /\ w \in Threaded
    /\ main[w] = "start_thread"
    /\ ~MainBusy(w)
    /\ thread' = [thread EXCEPT ![w] = "started"]
    /\ pc' = [pc EXCEPT ![w] = "head"]
    /\ main' = [main EXCEPT ![w] = "started"]
    /\ UNCHANGED <<store, clock, apiVars, nPush, enq, active, handler,
                   items, item, gen, running, hs, sigAt, conn, delivered, obs>>

\* stop() called by the application: self.running = False, then the join begins.
SyncStop(w) ==
    /\ w \in Threaded
    /\ main[w] = "started"
    /\ ~MainBusy(w)
    /\ hs[w] # "joining"
    /\ running' = [running EXCEPT ![w] = FALSE]
    /\ main' = [main EXCEPT ![w] = "stop_join"]
    /\ UNCHANGED <<store, clock, apiVars, nPush, enq, active, handler,
                   loopVars, thread, hs, sigAt, conn, delivered, obs>>

\* SyncStopJoin, had stop() not joined the thread.
SyncStopNoJoin(w) ==
    /\ w \in Threaded
    /\ main[w] = "stop_join"
    /\ hs[w] # "joining"
    /\ main' = [main EXCEPT ![w] = "stopped"]
    /\ UNCHANGED <<store, clock, apiVars, nPush, enq, active, handler,
                   loopVars, running, thread, hs, sigAt, conn, delivered, obs>>

\* stop(): self.thread.join() returns once run() has returned.
SyncStopJoin(w) ==
    /\ w \in Threaded
    /\ main[w] = "stop_join"
    /\ ~MainBusy(w)
    /\ hs[w] # "joining"
    /\ pc[w] = "done"
    /\ main' = [main EXCEPT ![w] = "stopped"]
    /\ UNCHANGED <<store, clock, apiVars, nPush, enq, active, handler,
                   loopVars, running, thread, hs, sigAt, conn, delivered, obs>>

\* SIGINT or SIGTERM: handle_signal calls stop(), which clears the flag and
\* joins the thread if there is one; join() of a thread that was not started
\* raises RuntimeError, which leaves start().
SyncSignal(w) ==
    /\ w \in Threaded
    /\ handler[Process(w)] = w
    /\ hs[w] = "none"
    /\ running' = [running EXCEPT ![w] = FALSE]
    /\ sigAt' = [sigAt EXCEPT ![w] = main[w]]
    /\ hs' = [hs EXCEPT ![w] = CASE thread[w] = "none" -> "returned"
                                 [] thread[w] = "created" -> "raised"
                                 [] thread[w] = "started" -> "joining"]
    /\ main' = [main EXCEPT ![w] = IF thread[w] = "created" THEN "start_failed" ELSE @]
    /\ UNCHANGED <<store, clock, apiVars, nPush, enq, active, handler,
                   loopVars, thread, conn, delivered, obs>>

\* The join of the handler's stop() returns, and the handler with it.
SyncSignalJoin(w) ==
    /\ w \in Threaded
    /\ hs[w] = "joining"
    /\ pc[w] = "done"
    /\ hs' = [hs EXCEPT ![w] = "returned"]
    /\ UNCHANGED <<store, clock, apiVars, nPush, enq, active, handler,
                   loopVars, running, thread, main, sigAt, conn, delivered, obs>>

(***************************************************************************)
(* BaseWorker of src/async/redis_pq.py.  main is "new" once the worker is  *)
(* constructed, "registered", "flagged" and "connected" inside start()     *)
(* (run() is awaited from "connected" on) and "returned" once start() has  *)
(* returned.                                                               *)
(***************************************************************************)
\* start(): signal.signal(SIGINT / SIGTERM, self.handle_signal)
AsyncStartSignals(w) ==
    /\ w \in Cooperative
    /\ main[w] = "new"
    /\ main' = [main EXCEPT ![w] = "registered"]
    /\ handler' = [handler EXCEPT ![Process(w)] = w]
    /\ UNCHANGED <<store, clock, apiVars, nPush, enq, active, loopVars, running,
                   thread, hs, sigAt, conn, delivered, obs>>

\* start(): self.running = True
AsyncStartFlag(w) ==
    /\ w \in Cooperative
    /\ main[w] = "registered"
    /\ running' = [running EXCEPT ![w] = TRUE]
    /\ main' = [main EXCEPT ![w] = "flagged"]
    /\ UNCHANGED <<store, clock, apiVars, nPush, enq, active, handler,
                   loopVars, thread, hs, sigAt, conn, delivered, obs>>

\* start(): await self.queue.connect(), then await self.run() begins.
\* connect() assigns a new client to the queue object's redis_client, for
\* every worker that holds the object.
AsyncStartConnect(w) ==
    /\ w \in Cooperative
    /\ main[w] = "flagged"
    /\ conn' = [v \in Workers |-> IF v \in Sharing(w) THEN "open" ELSE conn[v]]
    /\ pc' = [pc EXCEPT ![w] = "head"]
    /\ main' = [main EXCEPT ![w] = "connected"]
    /\ UNCHANGED <<store, clock, apiVars, nPush, enq, active, handler,
                   items, item, gen, running, thread, hs, sigAt, delivered, obs>>

\* start(): run() has returned; await self.queue.disconnect(), and return.
\* disconnect() closes the queue object's redis_client, for every worker that
\* holds the object.
AsyncStartDisconnect(w) ==
    /\ w \in Cooperative
    /\ main[w] = "connected"
    /\ pc[w] = "done"
    /\ conn' = [v \in Workers |-> IF v \in Sharing(w) THEN "closed" ELSE conn[v]]
    /\ main' = [main EXCEPT ![w] = "returned"]
    /\ UNCHANGED <<store, clock, apiVars, nPush, enq, active, handler,
                   loopVars, running, thread, hs, sigAt, delivered, obs>>

\* SIGINT or SIGTERM once start() has installed the handler: handle_signal
\* sets self.running = False and returns.
AsyncSignal(w) ==
    /\ w \in Cooperative
    /\ handler[Process(w)] = w
    /\ hs[w] = "none"
    /\ running' = [running EXCEPT ![w] = FALSE]
    /\ sigAt' = [sigAt EXCEPT ![w] = main[w]]
    /\ hs' = [hs EXCEPT ![w] = "returned"]
    /\ UNCHANGED <<store, clock, apiVars, nPush, enq, active, handler,
                   loopVars, thread, main, conn, delivered, obs>>

(***************************************************************************)
(* SpecWorker: one worker, started, stopped and signalled by its           *)
(* application, with adapter failures and callbacks that raise; another    *)
(* process pushes items onto the worker's queue.                           *)
(***************************************************************************)
InitWorker == \E w \in {"c1", "p1", "ac1", "ap1"} : Constructed({w})

FeedPush == \E data \in WorkPayloads, k \in Priorities, f \in WriteFaults :
               Push(TaskQueue, data, k, f)

SyncLifecycle(w) ==
    \/ SyncStartFlag(w) \/ SyncStartThread(w) \/ SyncStartRun(w)
    \/ SyncStop(w) \/ SyncStopJoin(w) \/ SyncSignal(w) \/ SyncSignalJoin(w)

AsyncLifecycle(w) ==
    \/ AsyncStartSignals(w) \/ AsyncStartFlag(w) \/ AsyncStartConnect(w)
    \/ AsyncStartDisconnect(w) \/ AsyncSignal(w)

Lifecycle(w) == SyncLifecycle(w) \/ AsyncLifecycle(w)

Run(w) ==
    \/ LoopHead(w)
    \/ \E f \in ReadFaults : ConsumerZRange(w, f)
    \/ \E f \in WriteFaults : ConsumerZRem(w, f)
    \/ ConsumerProcess(w)
    \/ \E o \in Outcomes : ConsumerProcessed(w, o)
    \/ \E out \in GenOutputs : ProducerGenerate(w, "returns", out)
    \/ ProducerGenerate(w, "raises", NoOutput)
    \/ \E f \in WriteFaults : ProducerPush(w, f)
    \/ WorkerWake(w)

NextWorker == Tick \/ FeedPush \/ \E w \in active : Lifecycle(w) \/ Run(w)

SpecWorker == InitWorker /\ [][NextWorker]_vars

(***************************************************************************)
(* SpecRace: two Consumers, each in a process of its own, on the same      *)
(* queue; no adapter fails and no callback raises.                         *)
(***************************************************************************)
InitRace == Constructed({"c1", "c2"})

RacePush == \E data \in WorkPayloads, k \in Priorities : Push(TaskQueue, data, k, "ok")

RaceStep(w) ==
    \/ SyncStartFlag(w) \/ SyncStartThread(w) \/ SyncStartRun(w)
    \/ LoopHead(w)
    \/ ConsumerZRange(w, "ok")
    \/ ConsumerZRem(w, "ok")
    \/ ConsumerProcess(w)
    \/ ConsumerProcessed(w, "returns")
    \/ WorkerWake(w)

NextRace == Tick \/ RacePush \/ \E w \in active : RaceStep(w)

SpecRace == InitRace /\ [][NextRace]_vars

(***************************************************************************)
(* Properties of the queue's methods, under Spec.                          *)
(***************************************************************************)

\* No call of the Redis client has failed and every push has returned a
\* truthy result.
AllPushesSucceeded == ~hist.faults /\ ~hist.rejected

\* C1: with one caller, no adapter failure and successful pushes only, the
\* pops that follow the pushes return items in non-decreasing priority order,
\* and each returns an item whose priority is the minimum of the priorities in
\* the store.
C1_PriorityOrdering ==
    \A q \in QueueNames :
        AllPushesSucceeded =>
            /\ \A i \in 1..(Len(popped[q]) - 1) : popped[q][i] <= popped[q][i + 1]
            /\ popped[q] # <<>> =>
                  \A m \in DOMAIN store[q] : popped[q][Len(popped[q])] <= store[q][m]

\* Two pops in a row have returned items of different priorities, pushed
\* successfully.
C1_Witness ==
    \E q \in QueueNames :
        /\ AllPushesSucceeded
        /\ Len(popped[q]) = 2
        /\ popped[q][1] < popped[q][2]

\* C5: with one caller, no adapter failure, serializable payloads and every
\* pop issued on a non-empty queue, length() after n push() calls and m pop()
\* calls returns n - m.
C5_LengthAccounting ==
    (/\ ret.op = "length"
     /\ ~hist.faults
     /\ ~hist.unserializable
     /\ ~hist.popEmpty)
        => ret.result = PyInt(nPush[ret.q] - nPop[ret.q])

RECURSIVE JsonValue(_)
\* The value JSON has for a Python value: a tuple is an array, as a list is,
\* and the keys of an object are strings.
JsonValue(x) ==
    CASE x.t \in {"list", "tuple"} ->
           PyList([i \in 1..Len(x.xs) |-> JsonValue(x.xs[i])])
      [] x.t = "dict" ->
           PyDict([i \in 1..Len(x.kv) |->
                      <<PyStr(KeyText(x.kv[i][1])), JsonValue(x.kv[i][2])>>])
      [] OTHER -> x

\* The last two calls were a push onto an empty queue and a pop of the same
\* queue, both without adapter failure.
RoundTripCase ==
    /\ prev.op = "push" /\ ~prev.fault /\ prev.card = 0
    /\ ret.op = "pop" /\ ~ret.fault /\ ret.q = prev.q

\* C6 (as amended): pushing a JSON-serializable payload P onto an empty queue
\* and popping at once returns an item whose 'data' is P as JSON reads it
\* back (P itself unless P holds a tuple or a dict key that is not a string),
\* and leaves the queue empty.
C6_RoundTripJson ==
    (RoundTripCase /\ Serializable(prev.data)) =>
        /\ Truthy(ret.result)
        /\ DictGet(ret.result, KeyData) = JsonValue(prev.data)
        /\ store[ret.q] = EmptyZSet

\* A tuple was pushed onto the empty queue and came back as a list.
C6_Witness ==
    /\ RoundTripCase
    /\ prev.data = PyTuple(<<PyInt(1)>>)
    /\ DictGet(ret.result, KeyData) = PyList(<<PyInt(1)>>)

\* C6 (as stated): pushing payload P onto an empty queue and popping at once
\* returns an item whose 'data' equals P, and leaves the queue empty.
C6_RoundTrip ==
    (RoundTripCase /\ Truthy(prev.result)) =>
        /\ Truthy(ret.result)
        /\ DictGet(ret.result, KeyData) = prev.data
        /\ store[ret.q] = EmptyZSet

\* C7 (as amended): peek() never changes the contents of a queue, and while
\* the queue is not changed, every peek() that meets no adapter failure returns
\* the same item, which is the item the next pop() returns when it meets no
\* adapter failure.
C7_PeekStable ==
    [][\A q \in QueueNames :
          /\ (\E f \in ReadFaults : Peek(q, f)) => store' = store
          /\ (Peek(q, "ok") /\ peeked[q] # NoPeek) => ret'.result = peeked[q]
          /\ (Pop(q, "ok", "ok") /\ peeked[q] # NoPeek) => ret'.result = peeked[q]
      ]_vars

\* Two peeks in a row have returned the same item of a queue that holds two.
C7_Witness ==
    /\ prev.op = "peek" /\ Truthy(prev.result)
    /\ ret.op = "peek" /\ ret.result = prev.result
    /\ ZCard(store[ret.q]) = 2

\* C7 (as stated): peek() never changes the contents of a queue, and with no
\* push or pop in between, repeated peek() calls return the same item, which
\* is the item the next pop() returns.
C7_PeekStableAlways ==
    [][\A q \in QueueNames :
          /\ (\E f \in ReadFaults : Peek(q, f)) => store' = store
          /\ ((\E f \in ReadFaults : Peek(q, f)) /\ peeked[q] # NoPeek)
                => ret'.result = peeked[q]
          /\ ((\E f1 \in ReadFaults, f2 \in WriteFaults : Pop(q, f1, f2))
                /\ peeked[q] # NoPeek) => ret'.result = peeked[q]
      ]_vars

\* The neutral result of a method.
Neutral(op) ==
    CASE op = "push" -> PyBool(FALSE)
      [] op = "length" -> PyInt(0)
      [] op = "get_all" -> PyList(<<>>)
      [] OTHER -> PyNone

\* C8: a failure of the Redis client during push, pop, peek, length or get_all
\* is never propagated to the caller: the call returns its neutral result.
C8_GracefulDegradation ==
    ret.fault => (~ret.raised /\ ret.result = Neutral(ret.op))

(***************************************************************************)
(* Properties of concurrent Consumers, under SpecRace.                     *)
(***************************************************************************)

\* C2: when one item X is all that was pushed, and it was pushed once, the
\* pop() calls of two concurrent Consumers never both return X.
C2_NeverBothDeliver ==
    \A m \in DOMAIN enq :
        (DOMAIN enq = {m} /\ enq[m] = 1)
            => ~(item["c1"] = Loads(m) /\ item["c2"] = Loads(m))

\* No Consumer is between the zrange of a pop() and the end of the processing
\* of the item that pop() returned.
NoneInFlight == \A w \in active : pc[w] \notin {"zrem", "process", "processing"}

\* C3: once the queue has been emptied, every item pushed has been passed to
\* an item_processor exactly once, the two Consumers taken together.
C3_ExactlyOnce ==
    (store[TaskQueue] = EmptyZSet /\ NoneInFlight) =>
        \A m \in DOMAIN enq : CountOf(delivered, m) = enq[m]

(***************************************************************************)
(* Properties of one worker, under SpecWorker.                             *)
(***************************************************************************)

\* C4: with one Consumer on the queue, no item is passed to the item_processor
\* more often than it was pushed, also when the processor raises or a call of
\* the Redis client fails; the Consumer never puts an item back.
C4_AtMostOnce ==
    \A m \in DOMAIN delivered : delivered[m] <= CountOf(enq, m)

\* The one Consumer has met an adapter failure, its processor has raised on an
\* item, and it has gone on to pop and process another item.
C4_Witness ==
    \E w \in active \cap Consumers, m \in DOMAIN delivered :
        /\ hist.faults /\ hist.caught
        /\ pc[w] = "processing"
        /\ Dumps(item[w]) # m

\* The steps of a worker that call the Redis client.
StoreCall(w) ==
    \/ \E f \in ReadFaults : ConsumerZRange(w, f)
    \/ \E f \in WriteFaults : ConsumerZRem(w, f)
    \/ \E f \in WriteFaults : ProducerPush(w, f)

\* run() leaves its loop only from the loop's head.
ExitsAtHead ==
    \A w \in active : (pc[w] # "done" /\ pc'[w] = "done") => pc[w] = "head"

\* A stop() that began after start() had returned has returned: the
\* application's, or the one the signal handler called.
StopReturned(w) ==
    /\ w \in Threaded
    /\ \/ main[w] = "stopped"
       \/ hs[w] = "returned" /\ sigAt[w] \in {"started", "stop_join", "stopped"}

\* A stop request made once start() had set the flag has been handled: stop()
\* has returned, or the signal handler has.
StopHandled(w) ==
    \/ main[w] = "stopped"
    \/ hs[w] = "returned" /\ sigAt[w] \notin {"new", "registered"}

\* C9 (as amended): for a threaded worker, once a stop() that began after
\* start() had returned has returned (called by the application or by the
\* signal handler), run() has returned; after a stop request handled once
\* start() had set the flag, a threaded worker calls the store no more.  For a
\* cooperative worker, whose signal handler only clears the flag, both hold
\* once start() has returned.  In both, run() leaves its loop only at the
\* loop's head, so the iteration in flight at the stop request runs to its end.
C9_ShutdownAmended ==
    /\ [](\A w \in active :
            (StopReturned(w) \/ (w \in Cooperative /\ main[w] = "returned"))
                => pc[w] = "done")
    /\ [][\A w \in active :
            ((w \in Threaded /\ StopHandled(w))
                \/ (w \in Cooperative /\ main[w] = "returned")) => ~StoreCall(w)]_vars
    /\ [][ExitsAtHead]_vars

\* stop() has returned to the application of a threaded Consumer that had
\* processed an item.
C9_Witness ==
    \E w \in active \cap Threaded :
        /\ main[w] = "stopped"
        /\ pc[w] = "done"
        /\ delivered # EmptyZSet

\* C9 (as stated): once stop() has returned or a termination signal has been
\* handled, for a worker whose start() was called, the worker calls the store
\* no more, and run() leaves its loop only at the loop's head.
C9_Shutdown ==
    /\ [][\A w \in active : StopHandled(w) => ~StoreCall(w)]_vars
    /\ [][ExitsAtHead]_vars

\* The steps of a worker in which a callback raises or a call of the Redis
\* client fails.
ErrorStep(w) ==
    \/ ConsumerProcessed(w, "raises")
    \/ ProducerGenerate(w, "raises", NoOutput)
    \/ \E f \in ReadFaults \ {"ok"} : ConsumerZRange(w, f)
    \/ \E f \in WriteFaults \ {"ok"} : ConsumerZRem(w, f) \/ ProducerPush(w, f)

\* C10: an Exception of the item_generator, push, pop or the item_processor
\* never ends run(): the iteration ends in a sleep and the loop goes on. run()
\* leaves its loop only when the flag is false, which only stop() and the
\* signal handler make it, and while the flag is true the loop's head begins
\* another iteration.
C10_LoopErrorsNotFatal ==
    [][\A w \in active :
          /\ ErrorStep(w) => pc'[w] \in {"sleep", "backoff"}
          /\ (pc[w] \in {"sleep", "backoff"} /\ pc'[w] # pc[w]) => pc'[w] = "head"
          /\ (pc[w] = "head" /\ running[w] /\ pc'[w] # pc[w])
                => pc'[w] \in {"zrange", "generate"}
          /\ (pc[w] # "done" /\ pc'[w] = "done") => ~running[w]
          /\ (running[w] /\ ~running'[w])
                => (SyncStop(w) \/ SyncSignal(w) \/ AsyncSignal(w))
      ]_vars

\* The except branch of a worker's run() has been taken, and the worker is in
\* a later iteration with the flag still true.
C10_Witness ==
    \E w \in active :
        /\ hist.caught
        /\ running[w]
        /\ pc[w] \in {"zrem", "zadd"}

\* C11: a Consumer issues no pop while a call of its item_processor has not
\* returned; it never holds more than one item that a pop returned and whose
\* processing has not completed; and it calls the item_processor on the items
\* in the order its pops returned them.
C11_Sequential ==
    /\ [](\A w \in active \cap Consumers :
            Len(obs[w].pending) + obs[w].busy <= 1)
    /\ [][\A w \in active \cap Consumers :
            /\ (\E f \in ReadFaults : ConsumerZRange(w, f))
                  => (obs[w].busy = 0 /\ obs[w].pending = <<>>)
            /\ ConsumerProcess(w) => obs[w].pending = <<item[w]>>
         ]_vars

\* A Consumer is processing an item after it has processed another one.
C11_Witness ==
    \E w \in active \cap Consumers :
        /\ obs[w].busy = 1
        /\ \E m \in DOMAIN delivered : m # Dumps(item[w])

\* C12: a pop() on an empty queue returns None, raises nothing and leaves the
\* store as it was; the Consumer that called it does not call its
\* item_processor in that iteration, sleeps for poll_interval (the except
\* branch of run() is not taken), and its flag stays as it was.
C12_EmptyQueueIdle ==
    [][\A w \in active \cap Consumers :
          /\ \A f \in ReadFaults :
                (ConsumerZRange(w, f) /\ store[TaskQueue] = EmptyZSet)
                    => /\ store' = store
                       /\ item'[w] = PyNone
                       /\ pc'[w] = "sleep"
                       /\ hist'.caught = hist.caught
                       /\ delivered' = delivered
                       /\ running'[w] = running[w]
          /\ (pc[w] = "sleep" /\ pc'[w] # pc[w])
                => (pc'[w] = "head" /\ delivered' = delivered)
      ]_vars

\* A running Consumer sleeps after a pop() that found the queue empty, no call
\* of the Redis client having failed.
C12_Witness ==
    \E w \in active \cap Consumers :
        /\ pc[w] = "sleep"
        /\ item[w] = PyNone
        /\ running[w]
        /\ store[TaskQueue] = EmptyZSet
        /\ ~hist.faults

(***************************************************************************)
(* SpecDrain: an application pushes tasks {'task_id': i}, i = 1, 2, ...,   *)
(* with priorities 1 to 3 as src/producer.py draws them, reads the queue   *)
(* with get_all() and pops from it.  Only get_all() meets adapter          *)
(* failures.                                                               *)
(***************************************************************************)
KeyTaskId == <<"t", "a", "s", "k", "_", "i", "d">>
Task(i) == PyDict(<< <<PyStr(KeyTaskId), PyInt(i)>> >>)
TaskPriorities == 1..3

DrainPush == \E k \in TaskPriorities :
                PushUpTo(MaxTasks, TaskQueue, Task(nPush[TaskQueue] + 1), k, "ok")
DrainGetAll == \E f \in ReadFaults : GetAll(TaskQueue, f)
DrainPop == Pop(TaskQueue, "ok", "ok")

NextDrain == Tick \/ DrainPush \/ DrainGetAll \/ DrainPop

SpecDrain == Init /\ [][NextDrain]_vars

\* What successive calls of pop() return until the queue is empty.
RECURSIVE PopAll(_)
PopAll(zs) ==
    IF zs = EmptyZSet THEN <<>>
    ELSE <<PopResult(zs, "ok", "ok")>> \o PopAll(PopStore(zs, "ok", "ok"))

\* The task_id of an item that get_all() or pop() returned.
TaskIdOf(x) == DictGet(DictGet(x, KeyData), KeyTaskId).n

\* The queue holds task 1 with priority 1, task 2 with priority 3 and task 3
\* with priority 2, and nothing else.
ScenarioQueue(zs) ==
    /\ ZCard(zs) = 3
    /\ \A m \in DOMAIN zs :
          LET i == TaskIdOf(Loads(m))
          IN  i \in 1..3 /\ zs[m] = <<1, 3, 2>>[i]

\* What get_all() returned is every item of the queue zs, in non-decreasing
\* priority, in the order successive pops return them; in the scenario queue
\* that is tasks 1, 3, 2.
FullOrderedRead(result, zs) ==
    LET xs == result.xs
    IN  /\ Len(xs) = ZCard(zs)
        /\ \A m \in DOMAIN zs : \E i \in 1..Len(xs) : xs[i] = Loads(m)
        /\ \A i, j \in 1..Len(xs) :
              i < j => zs[Dumps(xs[i])] <= zs[Dumps(xs[j])]
        /\ xs = PopAll(zs)
        /\ ScenarioQueue(zs) => [i \in 1..3 |-> TaskIdOf(xs[i])] = <<1, 3, 2>>

\* get_all() leaves every queue as it was.
GetAllReadsOnly ==
    [][(\E q \in QueueNames, f \in ReadFaults : GetAll(q, f)) => store' = store]_vars

\* C13 (as amended): get_all() leaves the queue unchanged, and a get_all()
\* that meets no adapter failure returns every item of the queue in
\* non-decreasing priority, the order in which successive pops return them:
\* tasks 1, 3, 2 after pushing task 1 with priority 1, task 2 with priority 3
\* and task 3 with priority 2.
C13_DrainAllNoFailure ==
    /\ []((ret.op = "get_all" /\ ~ret.fault)
            => FullOrderedRead(ret.result, store[TaskQueue]))
    /\ GetAllReadsOnly

\* get_all() has returned tasks 1, 3, 2 from the scenario queue.
C13_Witness ==
    /\ ret.op = "get_all"
    /\ ~ret.fault
    /\ ScenarioQueue(store[TaskQueue])
    /\ Len(ret.result.xs) = 3
    /\ [i \in 1..3 |-> TaskIdOf(ret.result.xs[i])] = <<1, 3, 2>>

\* C13 (as stated): get_all() leaves the queue unchanged and returns every
\* item of the queue in non-decreasing priority, the order in which
\* successive pops return them.
C13_DrainAll ==
    /\ [](ret.op = "get_all" => FullOrderedRead(ret.result, store[TaskQueue]))
    /\ GetAllReadsOnly

(***************************************************************************)
(* More properties of one worker, under SpecWorker.                        *)
(***************************************************************************)

\* C14: whatever the flag, once a Consumer's pop() has returned an item the
\* next thing the Consumer does is call the item_processor on that item, and
\* the call runs until it returns or raises; run() never returns with an item
\* popped and not processed.
C14_InFlightCompletes ==
    /\ [][\A w \in active \cap Consumers :
            /\ (pc[w] = "process" /\ pc'[w] # pc[w])
                  => /\ pc'[w] = "processing"
                     /\ delivered' = Count(delivered, Dumps(item[w]))
            /\ (pc[w] = "processing" /\ pc'[w] # pc[w])
                  => (pc'[w] \in {"head", "backoff"} /\ obs'[w].busy = 0)
         ]_vars
    /\ [](\A w \in active \cap Consumers :
            pc[w] = "done" => (obs[w].pending = <<>> /\ obs[w].busy = 0))

\* stop() or the signal handler has set the flag false, and the Consumer is
\* inside the item_processor with the item its pop() returned.
C14_Witness ==
    \E w \in active \cap Consumers :
        /\ ~running[w]
        /\ main[w] = "stop_join" \/ hs[w] # "none"
        /\ pc[w] = "processing"
        /\ obs[w].busy = 1

\* C15: after a stop request a worker begins at most one further call of
\* pop() or push(), the one of the iteration already begun.
C15_OneFurtherCall ==
    \A w \in active : obs[w].after <= 1

(***************************************************************************)
(* SpecStop: one worker and no adapter failure, in which every callback,   *)
(* sleep and store call of the worker returns, the thread or coroutine of  *)
(* run() is scheduled, and start(), stop() and the signal handler go on    *)
(* once they have begun.  Whether and when the application calls start()   *)
(* or stop(), and whether a signal arrives, stays open.                    *)
(***************************************************************************)
StopFeed == Push(TaskQueue, PyStr(TextA), DefaultPriority, "ok")

RunOk(w) ==
    \/ LoopHead(w)
    \/ ConsumerZRange(w, "ok")
    \/ ConsumerZRem(w, "ok")
    \/ ConsumerProcess(w)
    \/ \E o \in Outcomes : ConsumerProcessed(w, o)
    \/ ProducerGenerate(w, "returns", <<PyStr(TextA), DefaultPriority>>)
    \/ ProducerGenerate(w, "raises", NoOutput)
    \/ ProducerPush(w, "ok")
    \/ WorkerWake(w)

NextStop == StopFeed \/ \E w \in active : Lifecycle(w) \/ RunOk(w)

\* The steps by which a start(), a stop() or a signal handler goes on.
Proceed(w) ==
    \/ SyncStartThread(w) \/ SyncStartRun(w) \/ SyncStopJoin(w) \/ SyncSignalJoin(w)
    \/ AsyncStartFlag(w) \/ AsyncStartConnect(w) \/ AsyncStartDisconnect(w)

SpecStop ==
    /\ InitWorker
    /\ [][NextStop]_vars
    /\ \A w \in Workers : WF_vars(RunOk(w)) /\ WF_vars(Proceed(w))

\* run() has returned, or start() was left by an error before run() began.
Stopped(w) == pc[w] = "done" \/ main[w] = "start_failed"

\* C16: every stop request made after start() had begun (a stop() call, or a
\* signal handled once the handlers are registered) leads to the worker
\* being Stopped.
C16_StopNeverLost ==
    \A w \in Workers : (w \in active /\ StopRequested(w)) ~> Stopped(w)

(***************************************************************************)
(* SpecProcess: one application that constructs a Consumer and a Producer  *)
(* of src/redis_pq.py, in either order, and starts and stops them from its *)
(* main thread; no adapter fails.                                          *)
(***************************************************************************)
InitProcess == Constructed({"c1", "p1"})

NextProcess == StopFeed \/ \E w \in active : SyncLifecycle(w) \/ RunOk(w)

SpecProcess == InitProcess /\ [][NextProcess]_vars

\* C17: the signal handler's step sets the flag false for every worker of the
\* process that is running.
C17_SignalReachesAll ==
    [][\A w \in active :
          (SyncSignal(w) \/ AsyncSignal(w))
              => \A v \in active :
                    (Process(v) = Process(w) /\ running[v]) => ~running'[v]
      ]_vars

(***************************************************************************)
(* SpecCancel: one worker of src/async/redis_pq.py whose start() runs in   *)
(* a task that its application may cancel.  asyncio.CancelledError is      *)
(* raised at the await the task is suspended in; it is a BaseException,    *)
(* which `except Exception` in run() does not catch, so it leaves run()    *)
(* and start().  main is then "cancelled" and pc "aborted".                *)
(***************************************************************************)
AsyncCancel(w) ==
    /\ w \in Cooperative
    /\ main[w] = "connected"
    /\ pc[w] \in {"sleep", "backoff", "processing"}
    /\ pc' = [pc EXCEPT ![w] = "aborted"]
    /\ main' = [main EXCEPT ![w] = "cancelled"]
    /\ UNCHANGED <<store, clock, apiVars, nPush, enq, active, handler,
                   items, item, gen, running, thread, hs, sigAt, conn, delivered, obs>>

InitCancel == \E w \in Cooperative : Constructed({w})

NextCancel ==
    StopFeed \/ \E w \in active : AsyncLifecycle(w) \/ RunOk(w) \/ AsyncCancel(w)

SpecCancel == InitCancel /\ [][NextCancel]_vars

\* C18: for a cooperative worker, when start() has ended (returned, or left
\* by the exception that ended the loop) the loop has ended and the
\* connection is released; the connection is open at every store call of the
\* loop, and it is released only once the loop has ended.
C18_ConnectionReleased ==
    /\ [](\A w \in active \cap Cooperative :
            /\ main[w] \in {"returned", "cancelled"}
                  => (pc[w] \in {"done", "aborted"} /\ conn[w] = "closed")
            /\ conn[w] = "closed" => pc[w] \in {"done", "aborted"})
    /\ [][\A w \in active \cap Cooperative : StoreCall(w) => conn[w] = "open"]_vars

(***************************************************************************)
(* More properties of the queue's methods, under Spec.                     *)
(***************************************************************************)

\* C19: a pop() that returns None (the queue was empty, or a call of the
\* Redis client failed at the zrange or at the zrem) has removed nothing
\* from its queue.
C19_PopNeverLoses ==
    (ret.op = "pop" /\ ~Truthy(ret.result)) => ZCard(store[ret.q]) = ret.card

\* C20: a push() of a serializable payload that meets no adapter failure
\* returns a truthy result and makes its queue one item longer, also when the
\* queue holds an item of the same payload and timestamp; and a push() of a
\* serializable payload returns a falsy result only on an adapter failure.
C20_PushReportsEnqueue ==
    (ret.op = "push" /\ Serializable(ret.data)) =>
        /\ ~ret.fault => (Truthy(ret.result) /\ ZCard(store[ret.q]) = ret.card + 1)
        /\ ~Truthy(ret.result) => ret.fault

(***************************************************************************)
(* SpecShared: an application that constructs a Consumer and a Producer    *)
(* of src/async/redis_pq.py with one RedisPriorityQueue object and awaits  *)
(* both start() coroutines on one event loop.  A coroutine runs from one   *)
(* await that suspends it to the next: start() suspends nowhere between    *)
(* signal.signal and the first await inside run() (connect() awaits        *)
(* nothing), so no step of the other coroutine falls between its           *)
(* statements there; a signal handler runs between any two statements.     *)
(***************************************************************************)
InitShared == Constructed({"ac1", "ap1"})

\* Another coroutine is inside the statements of start() that do not suspend.
LoopBusy(w) == \E v \in active \ {w} : main[v] \in {"registered", "flagged"}

NextShared ==
    \/ StopFeed
    \/ \E w \in active :
          \/ AsyncSignal(w)
          \/ ~LoopBusy(w) /\ (AsyncStartSignals(w) \/ AsyncStartFlag(w)
                                \/ AsyncStartConnect(w) \/ AsyncStartDisconnect(w)
                                \/ RunOk(w))

SpecShared == InitShared /\ [][NextShared]_vars

\* A worker is Running: its loop has begun and not ended and its flag is true.
Running(w) == running[w] /\ pc[w] \notin {"idle", "done", "aborted"}

\* A step by which another worker that holds w's queue object closes the
\* object's connection, or assigns it a new one while it has an open one.
ReleasedByOther(w) == \E v \in (Sharing(w) \cap active) \ {w} : AsyncStartDisconnect(v)
ReplacedByOther(w) ==
    conn[w] = "open" /\ \E v \in (Sharing(w) \cap active) \ {w} : AsyncStartConnect(v)

\* C21: while a worker is Running no other worker that holds the same queue
\* object releases the object's connection or replaces it by a new one, and
\* every store call of a worker's loop is made on an open connection.
C21_SharedQueueUndisturbed ==
    [][\A w \in active :
          /\ (ReleasedByOther(w) \/ ReplacedByOther(w)) => ~Running(w)
          /\ StoreCall(w) => (w \in Cooperative => conn[w] = "open")
      ]_vars

(***************************************************************************)
(* SpecLive: one Consumer (of src/redis_pq.py or src/async/redis_pq.py),   *)
(* started, stopped and signalled by its application, while another        *)
(* process pushes up to MaxPush items of one payload, at different times   *)
(* and priorities; no call of the Redis client fails, and every            *)
(* item_processor call and every sleep returns.  The loop is weakly fair:  *)
(* a step of run() that stays possible is taken.                           *)
(***************************************************************************)
InitLive == \E w \in {"c1", "ac1"} : Constructed({w})

LiveFeed == \E k \in Priorities : Push(TaskQueue, PyStr(TextA), k, "ok")

\* The steps of Consumer.run when no call of the Redis client fails.
ConsumeOk(w) ==
    \/ LoopHead(w)
    \/ ConsumerZRange(w, "ok")
    \/ ConsumerZRem(w, "ok")
    \/ ConsumerProcess(w)
    \/ \E o \in Outcomes : ConsumerProcessed(w, o)
    \/ WorkerWake(w)

NextLive == Tick \/ LiveFeed \/ \E w \in active : Lifecycle(w) \/ ConsumeOk(w)

SpecLive ==
    /\ InitLive
    /\ [][NextLive]_vars
    /\ \A w \in {"c1", "ac1"} : WF_vars(ConsumeOk(w))

\* The queue is empty and every item pushed was passed to an item_processor.
Drained ==
    /\ ZCard(store[TaskQueue]) = 0
    /\ \A m \in DOMAIN enq : CountOf(delivered, m) >= 1

\* C22: when a Running consumer's queue holds items, then, unless the
\* consumer stops being Running, the queue becomes empty with every item
\* pushed passed to the item_processor.
C22_DrainLiveness ==
    \A w \in {"c1", "ac1"} :
        (w \in active /\ Running(w) /\ ZCard(store[TaskQueue]) > 0)
            ~> (~Running(w) \/ Drained)

\* A Running consumer has passed two different items to its item_processor,
\* has found the queue empty and sleeps.
C22_Witness ==
    \E w \in active :
        /\ Running(w)
        /\ Drained
        /\ Cardinality(DOMAIN enq) = 2
        /\ pc[w] = "sleep"

=============================================================================
